---- MODULE Spec2Model ----
(***************************************************************************)
(* Model of the task distribution pipeline of the RAG service:             *)
(*   backend/Producer.py  send_task           -> RabbitMQ queue            *)
(*   backend/Consumer.py  on_message          -> batch_buffer -> thread    *)
(*                        process_batch       -> ThreadPoolExecutor        *)
(*                        process_single_item -> cache / DB / pub-sub      *)
(*   utils/Cache_Manager.py, backend/Rag_pipeline.py, backend/Rag_Engine.py*)
(*                                                                         *)
(* A Python str is modelled as the sequence of its symbols (each symbol a  *)
(* TLA+ string), so that formatting and iteration act on its content.      *)
(***************************************************************************)
EXTENDS Integers, Sequences, FiniteSets, Bags, TLC

\* ------------------------------------------------------------------ bounds
\* Messages published to the queue in one run.
MaxMsgs == 2
\* Messages waiting in the broker, not yet delivered to the consumer.
MaxQueue == 1
\* The configured values of BATCH_SIZE explored (Config.py ships 5).
BatchSizes == {1, 2}
\* The configured values of WORKER_THREAD_POOL explored (Config.py ships 4).
PoolSizes == {1, 2}
\* Environment faults in one run: generator exceptions, failed DB commits,
\* cache entries reaching their TTL.
MaxFaults == 1

VARIABLES
    BATCH_SIZE,          \* Config.py:39, fixed at start-up
    WORKER_THREAD_POOL,  \* Config.py:40, fixed at start-up
    sent,                \* every body ever published to RABBITMQ_QUEUE; index = delivery tag
    qhead,               \* number of messages delivered to on_message so far
    acks,                \* delivery tag -> number of basic_ack calls for it
    cpc,                 \* position of the consumer thread inside on_message
    batch_buffer,        \* Consumer.py:56
    dispatched,          \* history: the batches handed to process_batch, in order
    threads,             \* live process_batch threads: what each still has to submit
    workq,               \* the executor's work queue
    running,             \* process_single_item calls executing on pool threads
    cache,               \* Redis key space: key -> value
    db,                  \* query_results table: a bag of rows (row ids are not modelled)
    channel,             \* messages published on REDIS_RESULTS_CHANNEL: a bag
    events,              \* history: <<tag, i, what, info>> for item i of task tag
    warm,                \* history: key -> answer of the completed miss pass whose
                         \* cache entry has not expired
    faults,              \* environment faults injected so far
    front,               \* the producer-side request in progress: a POST /ask or a
                         \* direct send_task call, and where it stands
    link                 \* the consumer process: position of run_consumer

vars == <<BATCH_SIZE, WORKER_THREAD_POOL, sent, qhead, acks, cpc, batch_buffer,
          dispatched, threads, workq, running, cache, db, channel, events, warm,
          faults, front, link>>

\* ------------------------------------------------------------ Python values
PyNone == [kind |-> "None"]
PyStr(s) == [kind |-> "str", v |-> s]
PyList(l) == [kind |-> "list", v |-> l]

\* bool(x) for None, str and list.
Truthy(x) == x.kind # "None" /\ Len(x.v) > 0

\* for e in x: a str yields its one-symbol substrings, a list its elements.
Iterate(x) ==
    IF x.kind = "str" THEN [i \in 1..Len(x.v) |-> <<x.v[i]>>] ELSE x.v

\* dict.get(key, default)
Get(d, key, default) == IF key \in DOMAIN d THEN d[key] ELSE default

\* A Python value that has .get: a dict (str, list and None are tagged).
IsDict(x) == "kind" \notin DOMAIN x

json_dumps(obj) == [kind |-> "json", doc |-> obj]

\* json.loads: raises on a body that is not JSON text.
json_loads(body) ==
    IF body.kind = "json" THEN [ok |-> TRUE, data |-> body.doc] ELSE [ok |-> FALSE]

\* ------------------------------------------------------------------ inputs
DefaultPdf == <<"default.pdf">>
D1 == <<"a.pdf">>
D2 == <<"b.pdf">>
Q1 == <<"summarize", "chapter2">>
Q2 == <<"who", "wrote", "it">>
Alice == <<"alice">>
\* The calls of send_task(user, question, pdf_ids) explored.
Submissions ==
    { <<Alice, Q1, PyList(<<D1, D2>>)>>,
      <<Alice, Q1, PyStr(D1)>>,
      <<Alice, Q2, PyNone>> }
Garbage == [kind |-> "garbage"]

\* ---------------------------------------------------------------- producer
\* send_task: normalise pdf_ids, build the payload, publish json.dumps(payload).
send_task_payload(user, question, pdf_ids) ==
    LET ids == IF pdf_ids.kind = "None" THEN PyList(<<DefaultPdf>>)
               ELSE IF pdf_ids.kind = "str" THEN PyList(<<pdf_ids.v>>)
               ELSE pdf_ids
    IN  [user |-> user, question |-> question, pdf_ids |-> ids]

send_task(user, question, pdf_ids) ==
    /\ Len(sent) < MaxMsgs
    /\ Len(sent) - qhead < MaxQueue
    /\ sent' = Append(sent, json_dumps(send_task_payload(user, question, pdf_ids)))
    /\ UNCHANGED <<front, link, BATCH_SIZE, WORKER_THREAD_POOL, qhead, acks, cpc, batch_buffer,
                   dispatched, threads, workq, running, cache, db, channel, events,
                   warm, faults>>

\* JSON values that are not objects: null, a string, a list.
NonObjects == {PyNone, PyStr(<<"hello">>), PyList(<<D1>>)}

\* Another publisher puts valid JSON that is not an object on the queue.
publish_non_object(doc) ==
    /\ Len(sent) < MaxMsgs
    /\ Len(sent) - qhead < MaxQueue
    /\ sent' = Append(sent, json_dumps(doc))
    /\ UNCHANGED <<front, link, BATCH_SIZE, WORKER_THREAD_POOL, qhead, acks, cpc, batch_buffer,
                   dispatched, threads, workq, running, cache, db, channel, events,
                   warm, faults>>

\* Another publisher puts a body that is not JSON on the queue.
publish_garbage ==
    /\ Len(sent) < MaxMsgs
    /\ Len(sent) - qhead < MaxQueue
    /\ sent' = Append(sent, Garbage)
    /\ UNCHANGED <<front, link, BATCH_SIZE, WORKER_THREAD_POOL, qhead, acks, cpc, batch_buffer,
                   dispatched, threads, workq, running, cache, db, channel, events,
                   warm, faults>>

\* ---------------------------------------------------------------- consumer
\* The delivery on_message is handling (cpc # "wait") or has handled last.
CurTag == qhead

basic_ack(tag) == acks' = [acks EXCEPT ![tag] = @ + 1]

\* on_message_parse_error with the ack of line 186 left out.
on_message_parse_error_NoAck ==
    /\ link = "consuming"
    /\ cpc = "wait"
    /\ qhead < Len(sent)
    /\ ~json_loads(sent[qhead + 1]).ok
    /\ qhead' = qhead + 1
    /\ UNCHANGED <<front, link, BATCH_SIZE, WORKER_THREAD_POOL, sent, acks, cpc, batch_buffer,
                   dispatched, threads, workq, running, cache, db, channel, events,
                   warm, faults>>

\* on_message, lines 183-187: the body does not parse; ack and return.
on_message_parse_error ==
    /\ link = "consuming"
    /\ cpc = "wait"
    /\ qhead < Len(sent)
    /\ ~json_loads(sent[qhead + 1]).ok
    /\ qhead' = qhead + 1
    /\ basic_ack(qhead + 1)
    /\ UNCHANGED <<front, link, BATCH_SIZE, WORKER_THREAD_POOL, sent, cpc, batch_buffer,
                   dispatched, threads, workq, running, cache, db, channel, events,
                   warm, faults>>

\* on_message, lines 184 and 190-191: parse, take the lock, append. pika runs
\* the callback on the consumer thread, one delivery at a time, so the next
\* delivery waits until cpc is back at "wait"; buffer_lock is held from here
\* to the end of on_message_flush and no other thread touches batch_buffer.
on_message_append ==
    /\ link = "consuming"
    /\ cpc = "wait"
    /\ qhead < Len(sent)
    /\ json_loads(sent[qhead + 1]).ok
    /\ qhead' = qhead + 1
    /\ batch_buffer' = Append(batch_buffer,
                              [tag |-> qhead + 1, data |-> json_loads(sent[qhead + 1]).data])
    /\ cpc' = "ack"
    /\ UNCHANGED <<front, link, BATCH_SIZE, WORKER_THREAD_POOL, sent, acks, dispatched, threads,
                   workq, running, cache, db, channel, events, warm, faults>>

\* on_message_ack with the ack of line 192 left out.
on_message_ack_Missing ==
    /\ cpc = "ack"
    /\ cpc' = "flush"
    /\ UNCHANGED <<front, link, BATCH_SIZE, WORKER_THREAD_POOL, sent, qhead, acks, batch_buffer,
                   dispatched, threads, workq, running, cache, db, channel, events,
                   warm, faults>>

\* on_message, line 192.
on_message_ack ==
    /\ cpc = "ack"
    /\ basic_ack(CurTag)
    /\ cpc' = "flush"
    /\ UNCHANGED <<front, link, BATCH_SIZE, WORKER_THREAD_POOL, sent, qhead, batch_buffer,
                   dispatched, threads, workq, running, cache, db, channel, events,
                   warm, faults>>

\* on_message_flush comparing with > instead of >= on line 195.
on_message_flush_StrictlyGreater ==
    /\ cpc = "flush"
    /\ cpc' = "wait"
    /\ IF Len(batch_buffer) > BATCH_SIZE
       THEN /\ batch_buffer' = <<>>
            /\ dispatched' = Append(dispatched, batch_buffer)
            /\ threads' = threads \cup {batch_buffer}
       ELSE UNCHANGED <<batch_buffer, dispatched, threads>>
    /\ UNCHANGED <<front, link, BATCH_SIZE, WORKER_THREAD_POOL, sent, qhead, acks, workq, running,
                   cache, db, channel, events, warm, faults>>

\* on_message_flush without the batch_buffer = [] of line 197.
on_message_flush_KeepsBuffer ==
    /\ cpc = "flush"
    /\ cpc' = "wait"
    /\ IF Len(batch_buffer) >= BATCH_SIZE
       THEN /\ batch_buffer' = batch_buffer
            /\ dispatched' = Append(dispatched, batch_buffer)
            /\ threads' = threads \cup {batch_buffer}
       ELSE UNCHANGED <<batch_buffer, dispatched, threads>>
    /\ UNCHANGED <<front, link, BATCH_SIZE, WORKER_THREAD_POOL, sent, qhead, acks, workq, running,
                   cache, db, channel, events, warm, faults>>

\* on_message_flush that empties the buffer without starting process_batch.
on_message_flush_DropsBatch ==
    /\ cpc = "flush"
    /\ cpc' = "wait"
    /\ IF Len(batch_buffer) >= BATCH_SIZE
       THEN /\ batch_buffer' = <<>>
            /\ UNCHANGED <<dispatched, threads>>
       ELSE UNCHANGED <<batch_buffer, dispatched, threads>>
    /\ UNCHANGED <<front, link, BATCH_SIZE, WORKER_THREAD_POOL, sent, qhead, acks, workq, running,
                   cache, db, channel, events, warm, faults>>

\* on_message_flush that hands over whatever the buffer holds.
on_message_flush_AnyLength ==
    /\ cpc = "flush"
    /\ cpc' = "wait"
    /\ IF Len(batch_buffer) >= 1
       THEN /\ batch_buffer' = <<>>
            /\ dispatched' = Append(dispatched, batch_buffer)
            /\ threads' = threads \cup {batch_buffer}
       ELSE UNCHANGED <<batch_buffer, dispatched, threads>>
    /\ UNCHANGED <<front, link, BATCH_SIZE, WORKER_THREAD_POOL, sent, qhead, acks, workq, running,
                   cache, db, channel, events, warm, faults>>

\* on_message_flush that returns only when the pool has nothing left to do.
on_message_flush_WaitsForWorkers ==
    /\ cpc = "flush"
    /\ threads = {} /\ workq = <<>> /\ running = {}
    /\ cpc' = "wait"
    /\ IF Len(batch_buffer) >= BATCH_SIZE
       THEN /\ batch_buffer' = <<>>
            /\ dispatched' = Append(dispatched, batch_buffer)
            /\ threads' = threads \cup {batch_buffer}
       ELSE UNCHANGED <<batch_buffer, dispatched, threads>>
    /\ UNCHANGED <<front, link, BATCH_SIZE, WORKER_THREAD_POOL, sent, qhead, acks, workq, running,
                   cache, db, channel, events, warm, faults>>

\* on_message, lines 195-198: at the threshold swap the buffer and start a
\* process_batch thread on the copy; release the lock and return.
on_message_flush ==
    /\ cpc = "flush"
    /\ cpc' = "wait"
    /\ IF Len(batch_buffer) >= BATCH_SIZE
       THEN /\ batch_buffer' = <<>>
            /\ dispatched' = Append(dispatched, batch_buffer)
            /\ threads' = threads \cup {batch_buffer}
       ELSE UNCHANGED <<batch_buffer, dispatched, threads>>
    /\ UNCHANGED <<front, link, BATCH_SIZE, WORKER_THREAD_POOL, sent, qhead, acks, workq, running,
                   cache, db, channel, events, warm, faults>>

\* process_batch, lines 158-159: one executor.submit per loop iteration.
process_batch_submit(t) ==
    /\ t \in threads
    /\ workq' = Append(workq, Head(t))
    /\ threads' = (threads \ {t}) \cup (IF Len(t) > 1 THEN {Tail(t)} ELSE {})
    /\ UNCHANGED <<front, link, BATCH_SIZE, WORKER_THREAD_POOL, sent, qhead, acks, cpc,
                   batch_buffer, dispatched, running, cache, db, channel, events,
                   warm, faults>>

\* ------------------------------------------------------------ answer generator
\* Rag_pipeline.extract_metadata: intent from the words of the question
\* (keywords, a projection of the same words, are left out of the blob).
HasAny(q, words) == \E i \in 1..Len(q) : q[i] \in words

extract_metadata(question) ==
    [intent |-> IF HasAny(question, {"summarize", "summary", "summarise"})
                   THEN "summarization"
                ELSE IF HasAny(question, {"how", "why", "explain"}) THEN "explanatory"
                ELSE IF HasAny(question, {"list", "what", "who", "when"}) THEN "factual"
                ELSE "general",
     length |-> Len(question)]

build_dynamic_prompt(question, metadata) ==
    <<"Intent:", metadata.intent, "Question:">> \o question

select_model(question, metadata) ==
    IF metadata.intent = "summarization" \/ metadata.length > 250
    THEN "GPT-4" ELSE "GPT-3.5"

load_vector_store(pdf_id) == <<"vector_store_for_">> \o pdf_id

\* Eight random floats; nothing downstream reads them.
embed_query(query) == <<"embedding">>

\* The first k of four fixed snippets, whatever the store and the vector.
retrieve_context(vector_store, query_vector, k) ==
    SubSeq(<<"chunk1", "chunk2", "chunk3", "chunk4">>, 1, k)

generate_answer(context_chunks, prompt) == context_chunks \o <<"Answer:">> \o prompt

run_rag(prompt, pdf_id) ==
    LET store == load_vector_store(pdf_id)
        qvec == embed_query(prompt)
        ctx == retrieve_context(store, qvec, 3)
    IN  generate_answer(ctx, prompt)

run_pipeline(question, pdf_id) ==
    LET metadata == extract_metadata(question)
    IN  [answer |-> run_rag(build_dynamic_prompt(question, metadata), pdf_id),
         metadata |-> metadata,
         llm_model |-> select_model(question, metadata)]

\* ------------------------------------------------------------------- cache
\* hashlib.sha256(...).hexdigest(), taken to be collision-free.
sha256(s) == <<"sha256">> \o s

_key(question, pdf_id) == <<"rag_cache:">> \o sha256(pdf_id \o <<":">> \o question)

\* get_cached_answer building its key with the arguments swapped.
get_cached_answer_SwappedKey(question, pdf_id) ==
    LET k == _key(pdf_id, question)
    IN  IF k \in DOMAIN cache THEN PyStr(cache[k]) ELSE PyNone

get_cached_answer(question, pdf_id) ==
    LET k == _key(question, pdf_id)
    IN  IF k \in DOMAIN cache THEN PyStr(cache[k]) ELSE PyNone

\* The key space after set_cached_answer(question, pdf_id, answer, metadata).
set_cached_answer(question, pdf_id, answer, metadata) ==
    LET k == _key(question, pdf_id)
    IN  (k :> answer) @@ ((k \o <<":meta">>) :> json_dumps(metadata)) @@ cache

Without(f, k) == [x \in DOMAIN f \ {k} |-> f[x]]

\* ------------------------------------------------------------- worker pool
\* Steps with the save_result_db call of line 116 left out.
Steps_HitSkipsSave(hit) ==
    IF hit THEN <<"check", "pub">>
    ELSE <<"check", "gen", "save", "set", "pub">>

\* Steps with publish_result moved before save_result_db on the miss path.
Steps_PublishFirst(hit) ==
    IF hit THEN <<"check", "save", "pub">>
    ELSE <<"check", "gen", "pub", "save", "set">>

\* Steps with a set_cached_answer call added to the hit path.
Steps_HitRefreshes(hit) ==
    IF hit THEN <<"check", "save", "set", "pub">>
    ELSE <<"check", "gen", "save", "set", "pub">>

\* The statements of one iteration of process_single_item's loop, in order.
Steps(hit) ==
    IF hit THEN <<"check", "save", "pub">>
    ELSE <<"check", "gen", "save", "set", "pub">>

StepAfter(hit, pc) ==
    LET s == Steps(hit)
        k == CHOOSE j \in 1..Len(s) : s[j] = pc
    IN  IF k = Len(s) THEN "next" ELSE s[k + 1]

\* pdf_ids_of keeping only the first element of the list.
pdf_ids_of_FirstOnly(item) ==
    LET p == Get(item, "pdf_ids", PyNone)
    IN  IF Truthy(p) THEN PyList(<<Iterate(p)[1]>>)
        ELSE PyList(<<Get(item, "pdf_id", DefaultPdf)>>)

\* process_single_item, line 110.
pdf_ids_of(item) ==
    LET p == Get(item, "pdf_ids", PyNone)
    IN  IF Truthy(p) THEN p ELSE PyList(<<Get(item, "pdf_id", DefaultPdf)>>)

\* The frame of a process_single_item call at the top of iteration i.
Frame(tag, user, question, pdf_ids, i) ==
    [tag |-> tag, user |-> user, question |-> question, pdf_ids |-> pdf_ids,
     i |-> i, pc |-> "check", hit |-> FALSE, answer |-> <<>>, llm_model |-> "",
     metadata |-> [cached |-> FALSE]]

ItemKey(r) == _key(r.question, r.pdf_ids[r.i])

\* History event "what" of the item frame r is working on.
Ev(r, what) == <<r.tag, r.i, what, <<>>>>

\* worker_take of a pool that starts a thread for every submitted item.
worker_take_Unbounded ==
    /\ workq # <<>>
    /\ workq' = Tail(workq)
    /\ LET item == Head(workq).data
           ids == Iterate(pdf_ids_of(item))
       IN  running' = IF Len(ids) = 0 THEN running
                      ELSE running \cup {Frame(Head(workq).tag,
                                               Get(item, "user", <<"anonymous">>),
                                               Get(item, "question", <<>>), ids, 1)}
    /\ UNCHANGED <<front, link, BATCH_SIZE, WORKER_THREAD_POOL, sent, qhead, acks, cpc,
                   batch_buffer, dispatched, threads, cache, db, channel, events,
                   warm, faults>>

\* worker_take starting one call per pdf_id of the task at once.
worker_take_AllAtOnce ==
    /\ workq # <<>>
    /\ Cardinality(running) < WORKER_THREAD_POOL
    /\ workq' = Tail(workq)
    /\ LET item == Head(workq).data
           ids == Iterate(pdf_ids_of(item))
       IN  running' = running \cup
               {Frame(Head(workq).tag, Get(item, "user", <<"anonymous">>),
                      Get(item, "question", <<>>), ids, i) : i \in 1..Len(ids)}
    /\ UNCHANGED <<front, link, BATCH_SIZE, WORKER_THREAD_POOL, sent, qhead, acks, cpc,
                   batch_buffer, dispatched, threads, cache, db, channel, events,
                   warm, faults>>

\* worker_take treating a payload that is not a dict as a dict without keys.
worker_take_Lenient ==
    /\ workq # <<>>
    /\ Cardinality(running) < WORKER_THREAD_POOL
    /\ workq' = Tail(workq)
    /\ LET item == Head(workq).data
           ids == Iterate(pdf_ids_of(item))
       IN  running' = IF Len(ids) = 0 THEN running
                      ELSE running \cup {Frame(Head(workq).tag,
                                               Get(item, "user", <<"anonymous">>),
                                               Get(item, "question", <<>>), ids, 1)}
    /\ UNCHANGED <<front, link, BATCH_SIZE, WORKER_THREAD_POOL, sent, qhead, acks, cpc,
                   batch_buffer, dispatched, threads, cache, db, channel, events,
                   warm, faults>>

\* A pool thread takes the next work item and runs lines 106-112.
worker_take ==
    /\ workq # <<>>
    /\ Cardinality(running) < WORKER_THREAD_POOL
    /\ workq' = Tail(workq)
    /\ LET item == Head(workq).data
       IN  IF IsDict(item)
           THEN LET ids == Iterate(pdf_ids_of(item))
                IN  /\ running' = IF Len(ids) = 0 THEN running
                                  ELSE running \cup
                                       {Frame(Head(workq).tag,
                                              Get(item, "user", <<"anonymous">>),
                                              Get(item, "question", <<>>), ids, 1)}
                    /\ events' = events
           ELSE \* item.get on line 106 raises AttributeError: the call ends
                /\ running' = running
                /\ events' = events \cup {<<Head(workq).tag, 0, "raised", <<>>>>}
    /\ UNCHANGED <<front, link, BATCH_SIZE, WORKER_THREAD_POOL, sent, qhead, acks, cpc,
                   batch_buffer, dispatched, threads, cache, db, channel,
                   warm, faults>>

\* Frame r2 has just executed statement r.pc: go to the next statement, the
\* next pdf_id, or return. evs are the history events of the statement.
Proceed(r, r2, evs) ==
    LET nxt == StepAfter(r2.hit, r.pc)
        key == ItemKey(r)
    IN  IF nxt # "next"
        THEN /\ running' = (running \ {r}) \cup {[r2 EXCEPT !.pc = nxt]}
             /\ events' = events \cup evs
             /\ warm' = warm
        ELSE /\ running' = (running \ {r}) \cup
                    (IF r.i < Len(r.pdf_ids)
                     THEN {Frame(r.tag, r.user, r.question, r.pdf_ids, r.i + 1)}
                     ELSE {})
             /\ events' = events \cup evs \cup {Ev(r, "done")} \cup
                    (IF r.i < Len(r.pdf_ids) THEN {}
                     ELSE {<<r.tag, 0, "returned", <<>>>>})
             /\ warm' = IF ~r2.hit /\ key \in DOMAIN cache' /\ key \notin DOMAIN warm
                        THEN (key :> r2.answer) @@ warm ELSE warm

\* An exception leaves process_single_item: the Future keeps it, the pool
\* thread goes back to the work queue.
Raise(r, evs) ==
    /\ running' = running \ {r}
    /\ events' = events \cup evs
    /\ warm' = warm

\* cache_check behind a per-key lock held from the lookup to the cache write:
\* it waits while another call is generating for the same key.
cache_check_SingleFlight(r) ==
    /\ r \in running /\ r.pc = "check"
    /\ ~\E o \in running : /\ o # r /\ ItemKey(o) = ItemKey(r)
                           /\ o.pc \in {"gen", "save", "set"} /\ ~o.hit
    /\ LET cached == get_cached_answer(r.question, r.pdf_ids[r.i])
           r2 == IF Truthy(cached)
                 THEN [r EXCEPT !.hit = TRUE, !.answer = cached.v,
                                !.llm_model = "CACHE", !.metadata = [cached |-> TRUE]]
                 ELSE r
       IN  /\ UNCHANGED <<cache, db, channel, faults>>
           /\ Proceed(r, r2, IF ItemKey(r) \in DOMAIN warm
                             THEN {<<r.tag, r.i, "later", warm[ItemKey(r)]>>} ELSE {})
    /\ UNCHANGED <<front, link, BATCH_SIZE, WORKER_THREAD_POOL, sent, qhead, acks, cpc,
                   batch_buffer, dispatched, threads, workq>>

\* cache_check testing "cached is not None" instead of "if cached".
cache_check_HitIfPresent(r) ==
    /\ r \in running /\ r.pc = "check"
    /\ LET cached == get_cached_answer(r.question, r.pdf_ids[r.i])
           r2 == IF cached.kind # "None"
                 THEN [r EXCEPT !.hit = TRUE, !.answer = cached.v,
                                !.llm_model = "CACHE", !.metadata = [cached |-> TRUE]]
                 ELSE r
       IN  /\ UNCHANGED <<cache, db, channel, faults>>
           /\ Proceed(r, r2, IF ItemKey(r) \in DOMAIN warm
                             THEN {<<r.tag, r.i, "later", warm[ItemKey(r)]>>} ELSE {})
    /\ UNCHANGED <<front, link, BATCH_SIZE, WORKER_THREAD_POOL, sent, qhead, acks, cpc,
                   batch_buffer, dispatched, threads, workq>>

\* lines 114-115
cache_check(r) ==
    /\ r \in running /\ r.pc = "check"
    /\ LET cached == get_cached_answer(r.question, r.pdf_ids[r.i])
           r2 == IF Truthy(cached)
                 THEN [r EXCEPT !.hit = TRUE, !.answer = cached.v,
                                !.llm_model = "CACHE", !.metadata = [cached |-> TRUE]]
                 ELSE r
       IN  /\ UNCHANGED <<cache, db, channel, faults>>
           /\ Proceed(r, r2, IF ItemKey(r) \in DOMAIN warm
                             THEN {<<r.tag, r.i, "later", warm[ItemKey(r)]>>} ELSE {})
    /\ UNCHANGED <<front, link, BATCH_SIZE, WORKER_THREAD_POOL, sent, qhead, acks, cpc,
                   batch_buffer, dispatched, threads, workq>>

\* lines 127-130, run_pipeline returns
generate_returns(r) ==
    /\ r \in running /\ r.pc = "gen"
    /\ LET result == run_pipeline(r.question, r.pdf_ids[r.i])
       IN  /\ UNCHANGED <<cache, db, channel, faults>>
           /\ Proceed(r, [r EXCEPT !.answer = result.answer,
                                   !.llm_model = result.llm_model,
                                   !.metadata = result.metadata],
                      {Ev(r, "gen")})
    /\ UNCHANGED <<front, link, BATCH_SIZE, WORKER_THREAD_POOL, sent, qhead, acks, cpc,
                   batch_buffer, dispatched, threads, workq>>

\* line 127, run_pipeline raises
generate_raises(r) ==
    /\ r \in running /\ r.pc = "gen"
    /\ faults < MaxFaults
    /\ faults' = faults + 1
    /\ Raise(r, {Ev(r, "gen"), Ev(r, "genfail")})
    /\ UNCHANGED <<front, link, BATCH_SIZE, WORKER_THREAD_POOL, sent, qhead, acks, cpc,
                   batch_buffer, dispatched, threads, workq, cache, db, channel>>

\* The row save_result_db inserts (lines 76-85). Every metadata dict that
\* reaches it is non-empty, so the column is json.dumps(metadata), never NULL.
\* "item" is history (which item wrote the row), not a column.
QueryResult(r) ==
    [user |-> r.user, question |-> r.question, answer |-> r.answer,
     llm_model |-> r.llm_model, cache_hit |-> r.hit,
     metadata |-> json_dumps(r.metadata), item |-> <<r.tag, r.i>>]

\* lines 116 and 133, session.commit() succeeds
save_result_db(r) ==
    /\ r \in running /\ r.pc = "save"
    /\ db' = db (+) SetToBag({QueryResult(r)})
    /\ UNCHANGED <<cache, channel, faults>>
    /\ Proceed(r, r, {})
    /\ UNCHANGED <<front, link, BATCH_SIZE, WORKER_THREAD_POOL, sent, qhead, acks, cpc,
                   batch_buffer, dispatched, threads, workq>>

\* lines 116 and 133, the insert raises
save_result_db_raises(r) ==
    /\ r \in running /\ r.pc = "save"
    /\ faults < MaxFaults
    /\ faults' = faults + 1
    /\ Raise(r, {Ev(r, "dbfail")})
    /\ UNCHANGED <<front, link, BATCH_SIZE, WORKER_THREAD_POOL, sent, qhead, acks, cpc,
                   batch_buffer, dispatched, threads, workq, cache, db, channel>>

\* line 134
cache_set(r) ==
    /\ r \in running /\ r.pc = "set"
    /\ cache' = set_cached_answer(r.question, r.pdf_ids[r.i], r.answer, r.metadata)
    /\ UNCHANGED <<db, channel, faults>>
    /\ Proceed(r, r, {Ev(r, "set")})
    /\ UNCHANGED <<front, link, BATCH_SIZE, WORKER_THREAD_POOL, sent, qhead, acks, cpc,
                   batch_buffer, dispatched, threads, workq>>

\* The payload of publish_result (lines 117-123 and 135-141); "item" is
\* history (which item published it), not part of the payload.
Outcome(r) ==
    [user |-> r.user, question |-> r.question, pdf_id |-> r.pdf_ids[r.i],
     answer |-> r.answer, llm_model |-> r.llm_model, item |-> <<r.tag, r.i>>]

publish_result(r) ==
    /\ r \in running /\ r.pc = "pub"
    /\ channel' = channel (+) SetToBag({json_dumps(Outcome(r))})
    /\ UNCHANGED <<cache, db, faults>>
    /\ Proceed(r, r, {})
    /\ UNCHANGED <<front, link, BATCH_SIZE, WORKER_THREAD_POOL, sent, qhead, acks, cpc,
                   batch_buffer, dispatched, threads, workq>>

\* A Redis key reaches its TTL (CACHE_TTL_SECONDS after it was set).
ttl_expire(k) ==
    /\ k \in DOMAIN cache
    /\ faults < MaxFaults
    /\ faults' = faults + 1
    /\ cache' = Without(cache, k)
    /\ warm' = Without(warm, k)
    /\ UNCHANGED <<front, link, BATCH_SIZE, WORKER_THREAD_POOL, sent, qhead, acks, cpc,
                   batch_buffer, dispatched, threads, workq, running, db, channel,
                   events>>

\* ------------------------------------------- producer side, step by step
\* A document id of more than one symbol, and ask's default user.
LongPdf == <<"report", ".pdf">>
WebUser == <<"web_user">>

\* A key the JSON object does not have.
Absent == [kind |-> "absent"]

\* The dict with the keys user, question, pdf_ids that are not Absent.
Dict(user, question, pdf_ids) ==
    LET val(k) == CASE k = "user" -> user
                    [] k = "question" -> question
                    [] OTHER -> pdf_ids
    IN  [k \in {j \in {"user", "question", "pdf_ids"} : val(j).kind # "absent"} |-> val(k)]

\* The JSON bodies of POST /ask explored.
AskPayloads ==
    {Dict(u, q, p) : u \in {Absent, PyStr(Alice)},
                     q \in {Absent, PyStr(<<>>), PyStr(Q1)},
                     p \in {Absent, PyNone, PyStr(D1), PyStr(LongPdf),
                            PyList(<<>>), PyList(<<D1, D2>>)}}

\* The direct calls send_task(user, question, pdf_ids) explored.
DirectCalls ==
    {<<Alice, q, p>> : q \in {<<>>, Q1},
                       p \in {PyNone, PyStr(D1), PyStr(LongPdf),
                              PyList(<<>>), PyList(<<D1, D2>>)}}

\* Payloads another publisher puts on the queue as they are.
RawPayloads ==
    { [user |-> Alice, question |-> Q1, pdf_ids |-> PyStr(LongPdf)],
      [user |-> Alice, question |-> Q1] }

\* No request in progress. q0 and p0 keep the question and the pdf_ids the
\* request came with; connects counts the BlockingConnection attempts of the
\* send_task call in progress; failedAt is the statement that raised.
FrontIdle ==
    [pc |-> "idle", kind |-> "none", user |-> <<>>, question |-> <<>>,
     todo |-> <<>>, q0 |-> PyNone, p0 |-> Absent, status |-> "",
     connects |-> 0, failedAt |-> ""]

FrontUnchanged ==
    UNCHANGED <<link, BATCH_SIZE, WORKER_THREAD_POOL, qhead, acks, cpc, batch_buffer,
                dispatched, threads, workq, running, cache, db, channel, events,
                warm>>

\* APP.ask, lines 139-153: validate the question, read pdf_ids, enter the
\* loop that calls send_task once per element of pdf_ids.
ask(payload) ==
    /\ front.pc = "idle"
    /\ LET user == Get(payload, "user", PyStr(WebUser))
           question == Get(payload, "question", PyNone)
           pdf_ids == Get(payload, "pdf_ids", PyList(<<DefaultPdf>>))
           base == [FrontIdle EXCEPT !.kind = "ask", !.q0 = question,
                                     !.p0 = Get(payload, "pdf_ids", Absent)]
       IN  front' =
             IF ~Truthy(question)
             THEN [base EXCEPT !.pc = "done", !.status = "400"]
             ELSE IF pdf_ids.kind = "None"          \* for ... in None: TypeError
             THEN [base EXCEPT !.pc = "done", !.status = "raised",
                               !.failedAt = "loop"]
             ELSE IF Len(Iterate(pdf_ids)) = 0
             THEN [base EXCEPT !.pc = "done", !.status = "queued"]
             ELSE [base EXCEPT !.pc = "connect", !.user = user.v,
                               !.question = question.v,
                               !.todo = [i \in 1..Len(Iterate(pdf_ids)) |->
                                            PyStr(Iterate(pdf_ids)[i])]]
    /\ UNCHANGED <<sent, faults>>
    /\ FrontUnchanged

\* A caller other than ask enters send_task (Producer.py:110-116).
send_task_call(user, question, pdf_ids) ==
    /\ front.pc = "idle"
    /\ front' = [FrontIdle EXCEPT !.kind = "send_task", !.pc = "connect",
                                  !.user = user, !.question = question,
                                  !.todo = <<pdf_ids>>,
                                  !.q0 = PyStr(question), !.p0 = pdf_ids]
    /\ UNCHANGED <<sent, faults>>
    /\ FrontUnchanged

\* Producer.py:80
send_task_connect ==
    /\ front.pc = "connect"
    /\ front' = [front EXCEPT !.pc = "declare", !.connects = @ + 1]
    /\ UNCHANGED <<sent, faults>>
    /\ FrontUnchanged

\* Producer.py:81-82
send_task_declare ==
    /\ front.pc = "declare"
    /\ front' = [front EXCEPT !.pc = "publish"]
    /\ UNCHANGED <<sent, faults>>
    /\ FrontUnchanged

\* Producer.py:61-73 and 87-92
send_task_publish ==
    /\ front.pc = "publish"
    /\ sent' = Append(sent, json_dumps(send_task_payload(front.user, front.question,
                                                         Head(front.todo))))
    /\ front' = [front EXCEPT !.pc = "close"]
    /\ UNCHANGED faults
    /\ FrontUnchanged

\* Producer.py:97-98, then the caller: ask's next iteration or its return
\* on line 157.
send_task_close ==
    /\ front.pc = "close"
    /\ front' = IF Len(front.todo) > 1
                THEN [front EXCEPT !.pc = "connect", !.todo = Tail(@), !.connects = 0]
                ELSE [front EXCEPT !.pc = "done", !.todo = <<>>,
                                   !.status = IF front.kind = "ask" THEN "queued"
                                              ELSE "True"]
    /\ UNCHANGED <<sent, faults>>
    /\ FrontUnchanged

\* The broker is unreachable or the connection drops: the pika call of
\* line 80, 81-82, 87-92 or 97 raises. Neither send_task nor ask catches it.
send_task_raises ==
    /\ front.pc \in {"connect", "declare", "publish", "close"}
    /\ faults < MaxFaults
    /\ faults' = faults + 1
    /\ front' = [front EXCEPT !.pc = "done", !.status = "raised",
                              !.failedAt = front.pc]
    /\ UNCHANGED sent
    /\ FrontUnchanged

\* Another publisher puts a JSON object on the queue.
publish_payload(doc) ==
    /\ front.pc = "idle"
    /\ sent' = Append(sent, json_dumps(doc))
    /\ front' = [FrontIdle EXCEPT !.kind = "raw", !.pc = "done",
                                  !.status = "published",
                                  !.q0 = PyStr(doc.question),
                                  !.p0 = Get(doc, "pdf_ids", Absent)]
    /\ UNCHANGED faults
    /\ FrontUnchanged

\* ------------------------------------------------------------ run_consumer
LinkUnchanged ==
    UNCHANGED <<front, BATCH_SIZE, WORKER_THREAD_POOL, sent, qhead, acks, cpc,
                batch_buffer, dispatched, threads, workq, running, cache, db,
                channel, events, warm>>

\* run_consumer, lines 214-218: connect, declare the queue, set the prefetch
\* count, register on_message; start_consuming (221) then delivers.
run_consumer_connects ==
    /\ link = "start"
    /\ link' = "consuming"
    /\ UNCHANGED faults
    /\ LinkUnchanged

\* The broker is unreachable: BlockingConnection (214) raises. Nothing in
\* run_consumer or under __main__ (233) catches it, so the process ends.
run_consumer_raises ==
    /\ link = "start"
    /\ faults < MaxFaults
    /\ faults' = faults + 1
    /\ link' = "crashed"
    /\ LinkUnchanged

\* The connection drops while start_consuming (221) waits for a delivery:
\* it raises out of run_consumer in the same way.
start_consuming_raises ==
    /\ link = "consuming"
    /\ cpc = "wait"
    /\ faults < MaxFaults
    /\ faults' = faults + 1
    /\ link' = "crashed"
    /\ LinkUnchanged

\* ------------------------------------------------- process crash, restart
\* The acknowledged tasks that exist only in the memory of the consumer
\* process: buffered, in a process_batch thread, queued in the executor or
\* in execution.
MemoryTags ==
    {batch_buffer[j].tag : j \in 1..Len(batch_buffer)}
    \cup UNION {{t[j].tag : j \in 1..Len(t)} : t \in threads}
    \cup {workq[j].tag : j \in 1..Len(workq)}
    \cup {r.tag : r \in running}

\* The delivery on_message has appended (191) but not yet acknowledged (192).
Unacked == IF cpc = "ack" THEN {qhead} ELSE {}

\* consumer_killed of a process whose buffer and workers outlive it.
consumer_killed_WorkersSurvive ==
    /\ link = "consuming"
    /\ faults < MaxFaults
    /\ faults' = faults + 1
    /\ link' = "crashed"
    /\ cpc' = "wait"
    /\ qhead' = qhead - Cardinality(Unacked)
    /\ events' = events \cup {<<t, 0, "unacked", <<>>>> : t \in Unacked}
                        \cup {<<t, 0, "lost", <<>>>> : t \in MemoryTags \ Unacked}
    /\ UNCHANGED <<batch_buffer, threads, workq, running>>
    /\ UNCHANGED <<front, BATCH_SIZE, WORKER_THREAD_POOL, sent, acks, dispatched,
                   cache, db, channel, warm>>

\* consumer_killed of a process whose batch_buffer is kept across the crash.
consumer_killed_KeepsBuffer ==
    /\ link = "consuming"
    /\ faults < MaxFaults
    /\ faults' = faults + 1
    /\ link' = "crashed"
    /\ cpc' = "wait"
    /\ qhead' = qhead - Cardinality(Unacked)
    /\ events' = events \cup {<<t, 0, "unacked", <<>>>> : t \in Unacked}
                        \cup {<<t, 0, "lost", <<>>>> : t \in MemoryTags \ Unacked}
    /\ batch_buffer' = SelectSeq(batch_buffer, LAMBDA b : b.tag \notin Unacked)
    /\ threads' = {} /\ workq' = <<>> /\ running' = {}
    /\ UNCHANGED <<front, BATCH_SIZE, WORKER_THREAD_POOL, sent, acks, dispatched,
                   cache, db, channel, warm>>

\* The consumer process is killed (or its host goes down) at any point of
\* its run. Everything it holds in memory is gone: batch_buffer (line 56),
\* the process_batch threads, the executor's queue and its running calls
\* (line 53). The broker puts the delivery that was not acknowledged back
\* on the queue; acknowledged messages are gone from it. The history notes
\* which delivery was unacknowledged and which acknowledged tasks were in
\* memory.
consumer_killed ==
    /\ link = "consuming"
    /\ faults < MaxFaults
    /\ faults' = faults + 1
    /\ link' = "crashed"
    /\ cpc' = "wait"
    /\ qhead' = qhead - Cardinality(Unacked)
    /\ events' = events \cup {<<t, 0, "unacked", <<>>>> : t \in Unacked}
                        \cup {<<t, 0, "lost", <<>>>> : t \in MemoryTags \ Unacked}
    /\ batch_buffer' = <<>>
    /\ threads' = {} /\ workq' = <<>> /\ running' = {}
    /\ UNCHANGED <<front, BATCH_SIZE, WORKER_THREAD_POOL, sent, acks, dispatched,
                   cache, db, channel, warm>>

\* The consumer is started again: python Consumer.py, __main__ (227-233).
consumer_restarts ==
    /\ link = "crashed"
    /\ link' = "start"
    /\ UNCHANGED faults
    /\ LinkUnchanged

\* ---------------------------------------------------- the cache by itself
\* Document ids and questions with the separator of _key inside them.
KeyPdfs == { <<"a">>, <<"a", ":", "b">> }
KeyQuestions == { <<"c">>, <<"b", ":", "c">> }

\* One iteration of process_single_item's loop (lines 114-134) as the cache
\* sees it, run alone: a hit serves the stored answer, a miss stores the
\* generated one. The history notes for which (pdf_id, question) an answer
\* was generated ("filled") and to which it was served.
cache_pass(question, pdf_id) ==
    LET cached == get_cached_answer(question, pdf_id)
        result == run_pipeline(question, pdf_id)
    IN  IF Truthy(cached)
        THEN /\ events' = events \cup {<<0, 0, "served", <<pdf_id, question, cached.v>>>>}
             /\ UNCHANGED cache
        ELSE /\ cache' = set_cached_answer(question, pdf_id, result.answer,
                                           result.metadata)
             /\ events' = events \cup
                    {<<0, 0, "filled", <<pdf_id, question, result.answer>>>>}

cache_hit_pass(question, pdf_id) ==
    /\ Truthy(get_cached_answer(question, pdf_id))
    /\ cache_pass(question, pdf_id)
    /\ UNCHANGED <<front, link, BATCH_SIZE, WORKER_THREAD_POOL, sent, qhead, acks, cpc,
                   batch_buffer, dispatched, threads, workq, running, db, channel,
                   warm, faults>>

cache_miss_pass(question, pdf_id) ==
    /\ ~Truthy(get_cached_answer(question, pdf_id))
    /\ cache_pass(question, pdf_id)
    /\ UNCHANGED <<front, link, BATCH_SIZE, WORKER_THREAD_POOL, sent, qhead, acks, cpc,
                   batch_buffer, dispatched, threads, workq, running, db, channel,
                   warm, faults>>

\* Another Redis client stores an empty string under the cache key of
\* (pdf_id, question).
empty_answer_stored(question, pdf_id) ==
    /\ faults < MaxFaults
    /\ faults' = faults + 1
    /\ cache' = (_key(question, pdf_id) :> <<>>) @@ cache
    /\ warm' = Without(warm, _key(question, pdf_id))
    /\ UNCHANGED <<front, link, BATCH_SIZE, WORKER_THREAD_POOL, sent, qhead, acks, cpc,
                   batch_buffer, dispatched, threads, workq, running, db, channel,
                   events>>

InitPipeline ==
    /\ BATCH_SIZE \in BatchSizes
    /\ WORKER_THREAD_POOL \in PoolSizes
    /\ sent = <<>>
    /\ qhead = 0
    /\ acks = [t \in 1..MaxMsgs |-> 0]
    /\ cpc = "wait"
    /\ batch_buffer = <<>>
    /\ dispatched = <<>>
    /\ threads = {}
    /\ workq = <<>>
    /\ running = {}
    /\ cache = <<>>
    /\ db = EmptyBag
    /\ channel = EmptyBag
    /\ events = {}
    /\ warm = <<>>
    /\ faults = 0

\* The consumer is connected and consuming, no producer request is under way.
Init ==
    /\ InitPipeline
    /\ front = FrontIdle
    /\ link = "consuming"

Next ==
    \/ \E s \in Submissions : send_task(s[1], s[2], s[3])
    \/ publish_garbage
    \/ on_message_parse_error
    \/ on_message_append
    \/ on_message_ack
    \/ on_message_flush
    \/ \E t \in threads : process_batch_submit(t)
    \/ worker_take
    \/ \E r \in running : cache_check(r)
    \/ \E r \in running : generate_returns(r)
    \/ \E r \in running : generate_raises(r)
    \/ \E r \in running : save_result_db(r)
    \/ \E r \in running : save_result_db_raises(r)
    \/ \E r \in running : cache_set(r)
    \/ \E r \in running : publish_result(r)
    \/ \E k \in DOMAIN cache : ttl_expire(k)

Spec == Init /\ [][Next]_vars

\* One producer-side request from its arrival to its return.
NextFront ==
    \/ \E payload \in AskPayloads : ask(payload)
    \/ \E c \in DirectCalls : send_task_call(c[1], c[2], c[3])
    \/ \E doc \in RawPayloads : publish_payload(doc)
    \/ send_task_connect
    \/ send_task_declare
    \/ send_task_publish
    \/ send_task_close
    \/ send_task_raises

FrontSpec == Init /\ [][NextFront]_vars

\* The consumer process from the call of run_consumer on.
InitConsumer ==
    /\ InitPipeline
    /\ front = FrontIdle
    /\ link = "start"

NextConsumer ==
    \/ run_consumer_connects
    \/ run_consumer_raises
    \/ start_consuming_raises
    \/ Next

ConsumerSpec == InitConsumer /\ [][NextConsumer]_vars

\* Items processed one after the other against the Cache Store.
NextKey ==
    \/ \E q \in KeyQuestions, p \in KeyPdfs : cache_hit_pass(q, p)
    \/ \E q \in KeyQuestions, p \in KeyPdfs : cache_miss_pass(q, p)
    \/ \E k \in DOMAIN cache : ttl_expire(k)

KeySpec == Init /\ [][NextKey]_vars

\* The pipeline with a Cache Store in which empty answers can turn up,
\* and no other fault.
NextEmptyEntry ==
    \/ \E p \in {D1, D2} : empty_answer_stored(Q1, p)
    \/ \E s \in Submissions : send_task(s[1], s[2], s[3])
    \/ on_message_append
    \/ on_message_ack
    \/ on_message_flush
    \/ \E t \in threads : process_batch_submit(t)
    \/ worker_take
    \/ \E r \in running : cache_check(r)
    \/ \E r \in running : generate_returns(r)
    \/ \E r \in running : save_result_db(r)
    \/ \E r \in running : cache_set(r)
    \/ \E r \in running : publish_result(r)

EmptyEntrySpec == Init /\ [][NextEmptyEntry]_vars

\* The pipeline fed with tasks and with JSON values that are not objects,
\* and no fault.
NextNonObject ==
    \/ \E doc \in NonObjects : publish_non_object(doc)
    \/ \E s \in Submissions : send_task(s[1], s[2], s[3])
    \/ on_message_append
    \/ on_message_ack
    \/ on_message_flush
    \/ \E t \in threads : process_batch_submit(t)
    \/ worker_take
    \/ \E r \in running : cache_check(r)
    \/ \E r \in running : generate_returns(r)
    \/ \E r \in running : save_result_db(r)
    \/ \E r \in running : cache_set(r)
    \/ \E r \in running : publish_result(r)

NonObjectSpec == Init /\ [][NextNonObject]_vars

\* The pipeline with a consumer process that can be killed and started
\* again, the crash being the only fault.
NextCrash ==
    \/ consumer_killed
    \/ consumer_restarts
    \/ run_consumer_connects
    \/ \E s \in Submissions : send_task(s[1], s[2], s[3])
    \/ on_message_append
    \/ on_message_ack
    \/ on_message_flush
    \/ \E t \in threads : process_batch_submit(t)
    \/ worker_take
    \/ \E r \in running : cache_check(r)
    \/ \E r \in running : generate_returns(r)
    \/ \E r \in running : save_result_db(r)
    \/ \E r \in running : cache_set(r)
    \/ \E r \in running : publish_result(r)

CrashSpec == Init /\ [][NextCrash]_vars

\* ---------------------------------------------------------- observations
\* An item is <<tag, i>>: document i of the task with delivery tag "tag".
Happened(x, what) == \E e \in events : e[1] = x[1] /\ e[2] = x[2] /\ e[3] = what

Done(x) == Happened(x, "done")

\* Rows of query_results / outcomes on the channel that item x produced.
RecCount(x) ==
    BagCardinality([row \in {w \in DOMAIN db : w.item = x} |-> db[row]])

OutCount(x) ==
    BagCardinality([o \in {w \in DOMAIN channel : w.doc.item = x} |-> channel[o]])

InProgress(x) == \E r \in running : <<r.tag, r.i>> = x

DoneItems == {<<e[1], e[2]>> : e \in {d \in events : d[3] = "done"}}

\* Delivery tags whose body parsed / did not parse.
Parsed(t) == json_loads(sent[t]).ok

ParsedTags == {t \in 1..qhead : Parsed(t)}

\* The parsed deliveries so far, in arrival order, as on_message buffers them.
RECURSIVE ParsedLog(_)
ParsedLog(n) ==
    IF n = 0 THEN <<>>
    ELSE IF Parsed(n)
         THEN Append(ParsedLog(n - 1), [tag |-> n, data |-> json_loads(sent[n]).data])
         ELSE ParsedLog(n - 1)

RECURSIVE SumLen(_)
SumLen(batches) ==
    IF batches = <<>> THEN 0 ELSE Len(Head(batches)) + SumLen(Tail(batches))

SeqTags(q) == {q[j].tag : j \in 1..Len(q)}

\* Tags handed to process_batch.
DispatchedTags == UNION {SeqTags(dispatched[k]) : k \in 1..Len(dispatched)}

\* Tags some processing step has touched or is about to.
ProcessingTags ==
    DispatchedTags \cup SeqTags(workq) \cup {r.tag : r \in running}
    \cup {e[1] : e \in events} \cup {w.item[1] : w \in DOMAIN db}
    \cup {o.doc.item[1] : o \in DOMAIN channel}

\* Nothing is left to run and no message is waiting.
NoWorkLeft == threads = {} /\ workq = <<>> /\ running = {}

Quiescent == cpc = "wait" /\ qhead = Len(sent) /\ NoWorkLeft

\* The ProcessingItems process_single_item derives from a task payload
\* (Consumer.py:106-112): one per element the loop of line 112 visits.
ProcessingItems(item) ==
    LET ids == Iterate(pdf_ids_of(item))
    IN  [i \in 1..Len(ids) |->
            [user |-> Get(item, "user", <<"anonymous">>),
             question |-> Get(item, "question", <<>>),
             pdf_id |-> ids[i]]]

\* The ProcessingItems of the first n messages on the queue, in order.
RECURSIVE ItemsUpTo(_)
ItemsUpTo(n) ==
    IF n = 0 THEN <<>>
    ELSE ItemsUpTo(n - 1) \o
         (IF Parsed(n) THEN ProcessingItems(json_loads(sent[n]).data) ELSE <<>>)

QueueItems == ItemsUpTo(Len(sent))

\* The request has returned to its caller / its caller got an exception.
Returned == front.pc = "done"
Succeeded == Returned /\ front.status \in {"True", "queued", "published"}
TransportFailed ==
    Returned /\ front.failedAt \in {"connect", "declare", "publish", "close"}

\* ------------------------------------------------------------------ claims

\* C1: every successfully processed ProcessingItem (its iteration ran to the
\* end, no step raised), hit or miss, has exactly one ResultRecord and
\* exactly one Outcome; once no item is in progress, the number of
\* ResultRecords and the number of Outcomes both equal the number N of
\* such items.
C1_RecordPerItem ==
    /\ \A x \in DoneItems : RecCount(x) = 1 /\ OutCount(x) = 1
    /\ running = {} =>
          /\ BagCardinality(db) = Cardinality(DoneItems)
          /\ BagCardinality(channel) = Cardinality(DoneItems)

C1_Witness ==
    /\ running = {}
    /\ Cardinality(DoneItems) >= 2
    /\ \E w \in DOMAIN db : w.cache_hit /\ Done(w.item)
    /\ \E w \in DOMAIN db : ~w.cache_hit /\ Done(w.item)

\* C2: when on_message has returned, the batches dispatched so far are
\* exactly the consecutive groups of BATCH_SIZE parsed messages in arrival
\* order, and the buffer holds the remainder: nothing is dispatched before
\* the B-th parsed message, one batch of exactly those B tasks is dispatched
\* when it arrives, and the buffer is empty after it.
C2_BatchThreshold ==
    cpc = "wait" =>
        LET log == ParsedLog(qhead)
            n == Len(log) \div BATCH_SIZE
        IN  /\ Len(dispatched) = n
            /\ \A k \in 1..n :
                  dispatched[k] = SubSeq(log, (k - 1) * BATCH_SIZE + 1, k * BATCH_SIZE)
            /\ batch_buffer = SubSeq(log, n * BATCH_SIZE + 1, Len(log))

C2_Witness ==
    /\ cpc = "wait"
    /\ BATCH_SIZE = 2
    /\ Len(dispatched) = 1
    /\ Len(dispatched[1]) = 2
    /\ batch_buffer = <<>>

\* C3: a pass whose cache check comes after a miss pass for the same
\* (documentRef, question) completed, with the entry not yet expired, never
\* invokes the generator; the ResultRecord it writes has cache_hit = TRUE and
\* model "CACHE", the Outcome it publishes carries the first pass's answer,
\* and a pass that ran to completion has written and published exactly one.
C3_CacheIdempotence ==
    \A e \in events : e[3] = "later" =>
        LET x == <<e[1], e[2]>>
        IN  /\ ~Happened(x, "gen")
            /\ \A r \in running : <<r.tag, r.i>> = x /\ r.pc # "check" =>
                  r.hit /\ r.answer = e[4]
            /\ \A w \in DOMAIN db : w.item = x =>
                  w.cache_hit /\ w.llm_model = "CACHE" /\ w.answer = e[4]
            /\ \A o \in DOMAIN channel : o.doc.item = x =>
                  o.doc.answer = e[4] /\ o.doc.llm_model = "CACHE"
            /\ Done(x) => RecCount(x) = 1 /\ OutCount(x) = 1

C3_Witness ==
    \E e \in events :
        /\ e[3] = "later"
        /\ Done(<<e[1], e[2]>>)
        /\ \E o \in DOMAIN channel : o.doc.item = <<e[1], e[2]>> /\ o.doc.answer = e[4]

\* C4: a message is acknowledged exactly once by the on_message call that
\* received it, and no processing step (hand-off, submit, cache lookup,
\* generation, ResultRecord, Outcome) exists for a task whose message is
\* not acknowledged.
C4_AckBeforeProcessing ==
    /\ \A t \in 1..MaxMsgs : acks[t] <= 1
    /\ \A t \in 1..MaxMsgs : t > qhead => acks[t] = 0
    /\ \A t \in 1..qhead : (t < qhead \/ cpc = "wait") => acks[t] = 1
    /\ \A t \in ProcessingTags : acks[t] = 1
    /\ \A t \in threads : \A j \in 1..Len(t) : acks[t[j].tag] = 1

C4_Witness ==
    /\ cpc = "ack"
    /\ acks[qhead] = 0
    /\ qhead \in SeqTags(batch_buffer)
    /\ \E w \in DOMAIN db : acks[w.item[1]] = 1
    /\ \E o \in DOMAIN channel : acks[o.doc.item[1]] = 1

\* C5: a parsed and acknowledged task is never stranded: when no message is
\* waiting and everything that could run has run, every parsed task has
\* been handed to the worker pool.
C5_NeverStranded ==
    Quiescent => \A t \in ParsedTags : t \in DispatchedTags

\* C6: a generator failure is contained: once no work is left (and no
\* insert failed), every item of every dispatched task other than the items
\* whose own generator call raised has been processed to completion, and
\* the failed items have no ResultRecord and no Outcome.
C6_FailureContained ==
    (NoWorkLeft /\ ~\E e \in events : e[3] = "dbfail") =>
        \A k \in 1..Len(dispatched) : \A j \in 1..Len(dispatched[k]) :
            LET task == dispatched[k][j]
            IN  \A i \in 1..Len(task.data.pdf_ids.v) :
                    IF Happened(<<task.tag, i>>, "genfail")
                    THEN RecCount(<<task.tag, i>>) = 0 /\ OutCount(<<task.tag, i>>) = 0
                    ELSE Done(<<task.tag, i>>)

\* C7: a message whose body does not parse is acknowledged, is in no buffer
\* and no batch, is never processed, and does not count toward the
\* threshold: buffered plus dispatched tasks number the parsed messages.
C7_MalformedDropped ==
    /\ \A t \in 1..qhead : ~Parsed(t) =>
          /\ acks[t] = 1
          /\ t \notin SeqTags(batch_buffer)
          /\ t \notin ProcessingTags
    /\ Len(batch_buffer) + SumLen(dispatched) = Cardinality(ParsedTags)

C7_Witness ==
    /\ cpc = "wait"
    /\ BATCH_SIZE = 2
    /\ qhead = 2
    /\ Cardinality(ParsedTags) = 1
    /\ Len(batch_buffer) = 1
    /\ dispatched = <<>>

\* C8: a task with N >= 1 documentRefs yields one item per documentRef, in
\* list positions 1..N, each with the task's user and question; when the
\* call has returned there is exactly one Outcome for each of the N.
C8_FanOut ==
    \A t \in ParsedTags :
        LET task == json_loads(sent[t]).data
            docs == task.pdf_ids.v
        IN  /\ \A r \in running : r.tag = t =>
                  /\ r.i \in 1..Len(docs)
                  /\ r.pdf_ids[r.i] = docs[r.i]
                  /\ r.user = task.user /\ r.question = task.question
            /\ \A w \in DOMAIN db : w.item[1] = t =>
                  /\ w.item[2] \in 1..Len(docs)
                  /\ w.user = task.user /\ w.question = task.question
            /\ \A o \in DOMAIN channel : o.doc.item[1] = t =>
                  /\ o.doc.item[2] \in 1..Len(docs)
                  /\ o.doc.pdf_id = docs[o.doc.item[2]]
                  /\ o.doc.user = task.user /\ o.doc.question = task.question
            /\ Happened(<<t, 0>>, "returned") =>
                  \A i \in 1..Len(docs) : OutCount(<<t, i>>) = 1 /\ RecCount(<<t, i>>) = 1

C8_Witness ==
    \E t \in ParsedTags :
        /\ Len(json_loads(sent[t]).data.pdf_ids.v) = 2
        /\ Happened(<<t, 0>>, "returned")
        /\ OutCount(<<t, 1>>) = 1 /\ OutCount(<<t, 2>>) = 1

\* C9: a failed Result Sink insert does not block the item's later steps:
\* once the worker is through with the item its Outcome is published, and
\* on a miss its cache entry has been written.
C9_SinkFailureDoesNotBlock ==
    \A e \in events : e[3] = "dbfail" =>
        LET x == <<e[1], e[2]>>
        IN  ~InProgress(x) =>
                /\ OutCount(x) = 1
                /\ Happened(x, "gen") => Happened(x, "set")

\* C10: the steps of an item run in the order cache check, generate (miss),
\* ResultRecord write, cache write (miss), publish: an Outcome exists only
\* for an item whose ResultRecord is written, so the Outcomes never
\* outnumber the ResultRecords.
C10_PublishAfterPersist ==
    /\ BagCardinality(channel) <= BagCardinality(db)
    /\ \A o \in DOMAIN channel :
          /\ RecCount(o.doc.item) >= 1
          /\ Happened(o.doc.item, "gen") => Happened(o.doc.item, "set")
    /\ \A w \in DOMAIN db : ~w.cache_hit => Happened(w.item, "gen")
    /\ \A e \in events : e[3] = "set" => RecCount(<<e[1], e[2]>>) >= 1
    /\ \A r \in running :
          /\ r.pc = "pub" => RecCount(<<r.tag, r.i>>) = 1
          /\ r.pc \in {"check", "gen"} => RecCount(<<r.tag, r.i>>) = 0

C10_Witness ==
    /\ BagCardinality(channel) >= 1
    /\ BagCardinality(channel) < BagCardinality(db)
    /\ \E r \in running : r.pc = "pub" /\ ~r.hit /\ OutCount(<<r.tag, r.i>>) = 0

\* C11: the Cache Store is written only by the cache write of an item that
\* missed and whose generator call returned; apart from that only expiry
\* changes it. A step of an item that hit leaves the Cache Store as it was
\* and performs no cache write (so the entry's TTL is not renewed).
C11_WriteOnMissOnly ==
    [][/\ cache' # cache =>
            \/ \E k \in DOMAIN cache : cache' = Without(cache, k)
            \/ \E r \in running :
                  /\ r.pc = "set" /\ ~r.hit
                  /\ Happened(<<r.tag, r.i>>, "gen")
                  /\ ~Happened(<<r.tag, r.i>>, "genfail")
                  /\ cache' = set_cached_answer(r.question, r.pdf_ids[r.i],
                                                r.answer, r.metadata)
       /\ \A e \in events' \ events : e[3] = "set" =>
             /\ Happened(<<e[1], e[2]>>, "gen")
             /\ \E r \in running : <<r.tag, r.i>> = <<e[1], e[2]>> /\ ~r.hit
       /\ \A r \in running : (r.hit /\ r \notin running') =>
             cache' = cache /\ Ev(r, "set") \notin events'
      ]_vars

C11_Witness ==
    /\ \E w \in DOMAIN db :
          /\ w.cache_hit /\ Done(w.item) /\ ~Happened(w.item, "set")
          /\ _key(w.question, json_loads(sent[w.item[1]]).data.pdf_ids.v[w.item[2]])
                \in DOMAIN cache
    /\ \E e \in events : e[3] = "set" /\ Done(<<e[1], e[2]>>)

\* C12: whatever the batch size and the number of batches handed over, the
\* items being executed by the pool, and so the generator calls in progress,
\* never outnumber WORKER_THREAD_POOL.
C12_BoundedConcurrency ==
    /\ Cardinality(running) <= WORKER_THREAD_POOL
    /\ Cardinality({r \in running : r.pc = "gen"}) <= WORKER_THREAD_POOL

C12_Witness ==
    /\ Cardinality({r \in running : r.pc = "gen"}) = WORKER_THREAD_POOL
    /\ workq # <<>>

\* C19: with BATCH_SIZE = 1 every parsed message is dispatched, alone, by
\* the on_message call that received it: whenever on_message has returned
\* the buffer is empty and every parsed message delivered so far is in a
\* dispatched batch.
C19_StreamingAtOne ==
    BATCH_SIZE = 1 =>
        /\ Len(batch_buffer) <= 1
        /\ \A k \in 1..Len(dispatched) : Len(dispatched[k]) = 1
        /\ cpc = "wait" =>
              /\ batch_buffer = <<>>
              /\ ParsedTags \subseteq DispatchedTags
              /\ Len(dispatched) = Cardinality(ParsedTags)

C19_Witness ==
    /\ BATCH_SIZE = 1
    /\ cpc = "wait"
    /\ qhead = 2
    /\ Len(dispatched) = 2
    /\ batch_buffer = <<>>

\* The Outcomes on the channel published by the items of task t.
OutcomesOf(t) == {o \in DOMAIN channel : o.doc.item[1] = t}

\* C18: a single task with two distinct documentRefs, BATCH_SIZE = 1 and an
\* empty cache, once processed, has two ResultRecords with cache_hit = FALSE
\* and two Outcomes, and the answers of the two Outcomes differ.
C18_DistinctAnswers ==
    (/\ BATCH_SIZE = 1
     /\ Len(sent) = 1 /\ qhead = 1 /\ Parsed(1)
     /\ Len(json_loads(sent[1]).data.pdf_ids.v) = 2
     /\ json_loads(sent[1]).data.pdf_ids.v[1] # json_loads(sent[1]).data.pdf_ids.v[2]
     /\ Happened(<<1, 0>>, "returned")) =>
        /\ RecCount(<<1, 1>>) = 1 /\ RecCount(<<1, 2>>) = 1
        /\ \A w \in DOMAIN db : ~w.cache_hit
        /\ OutCount(<<1, 1>>) = 1 /\ OutCount(<<1, 2>>) = 1
        /\ \A o1, o2 \in OutcomesOf(1) :
              o1.doc.pdf_id # o2.doc.pdf_id => o1.doc.answer # o2.doc.answer

\* C13: when a transport call of send_task fails, send_task tries again
\* (it makes more than one connection attempt) and, the attempts exhausted,
\* returns failure to its caller.
C13_RetryThenFail ==
    TransportFailed => front.connects > 1 /\ front.status = "False"

\* C14: whenever a submission does not report success (it returns failure
\* or raises), whatever the step that failed (connect, declare, publish,
\* close), no message of it is on the queue.
C14_FailureLeavesQueue ==
    (Returned /\ front.kind \in {"ask", "send_task"} /\ ~Succeeded) => sent = <<>>

\* C15: send_task called with an empty pdf_ids list is rejected: it does not
\* report success, publishes nothing, and no ProcessingItem for the fallback
\* document comes of it.
C15_EmptyRefsRejected ==
    (Returned /\ front.kind = "send_task"
        /\ front.p0.kind = "list" /\ Len(front.p0.v) = 0) =>
        /\ ~Succeeded
        /\ sent = <<>>
        /\ \A i \in 1..Len(QueueItems) : QueueItems[i].pdf_id # DefaultPdf

\* C16: a submission (POST /ask or send_task) with an empty or missing
\* question is rejected: it does not report success, no message is
\* published, and no ProcessingItem has an empty question.
C16_EmptyQuestionRejected ==
    (Returned /\ front.kind \in {"ask", "send_task"} /\ ~Truthy(front.q0)) =>
        /\ ~Succeeded
        /\ sent = <<>>
        /\ \A i \in 1..Len(QueueItems) : QueueItems[i].question # <<>>

\* C17: an accepted payload whose pdf_ids is a bare string yields exactly
\* one ProcessingItem, for that whole string; one with pdf_ids omitted
\* yields exactly one ProcessingItem, for the fallback document.
C17_BareStringOneItem ==
    Succeeded =>
        /\ front.p0.kind = "str" =>
              Len(QueueItems) = 1 /\ QueueItems[1].pdf_id = front.p0.v
        /\ (\/ front.p0.kind = "absent"
            \/ front.kind = "send_task" /\ front.p0.kind = "None") =>
              Len(QueueItems) = 1 /\ QueueItems[1].pdf_id = DefaultPdf

\* C20: a connection failure does not terminate the consumer process (it
\* waits and connects again, so consumption can resume).
C20_ConsumerSurvives == link # "crashed"

\* The places of task t in the buffer and in the dispatched batches.
BufferSlots(t) == {j \in 1..Len(batch_buffer) : batch_buffer[j].tag = t}

DispatchSlots(t) ==
    UNION {{<<k, j>> : j \in {i \in 1..Len(dispatched[k]) : dispatched[k][i].tag = t}}
           : k \in 1..Len(dispatched)}

\* C21: every parsed task received so far is in exactly one place: in the
\* batch buffer, or in one dispatched batch (once); the buffer swap neither
\* drops nor duplicates a task, so the buffer length plus the sizes of the
\* dispatched batches equals the number of parsed messages received.
C21_ExactlyOnePlace ==
    /\ \A t \in ParsedTags :
          Cardinality(BufferSlots(t)) + Cardinality(DispatchSlots(t)) = 1
    /\ \A t \in 1..MaxMsgs : t \notin ParsedTags =>
          BufferSlots(t) = {} /\ DispatchSlots(t) = {}
    /\ Len(batch_buffer) + SumLen(dispatched) = Cardinality(ParsedTags)

C21_Witness ==
    /\ cpc = "flush"
    /\ acks[qhead] = 1
    /\ Cardinality(BufferSlots(qhead)) = 1
    /\ \E t \in ParsedTags : t # qhead /\ Cardinality(DispatchSlots(t)) = 1

\* C26: after every on_message call the buffer holds fewer than BATCH_SIZE
\* tasks, and every batch handed to process_batch has exactly BATCH_SIZE
\* tasks.
C26_FullBatchesOnly ==
    /\ cpc = "wait" => Len(batch_buffer) < BATCH_SIZE
    /\ Len(batch_buffer) <= BATCH_SIZE
    /\ \A k \in 1..Len(dispatched) : Len(dispatched[k]) = BATCH_SIZE
    /\ \A t \in threads : Len(t) >= 1 /\ Len(t) <= BATCH_SIZE

C26_Witness ==
    /\ BATCH_SIZE = 2
    /\ cpc = "wait"
    /\ \E t \in threads : Len(t) = 2
    /\ Len(batch_buffer) < BATCH_SIZE

\* C28: the pdf_ids of one task are processed by one process_single_item
\* call, one after the other in list order: no two items of a task are in
\* execution together, item i is started only when items 1..i-1 are done,
\* and an Outcome for item i exists only with the Outcomes of 1..i-1.
C28_TaskSequential ==
    /\ \A r1, r2 \in running : r1.tag = r2.tag => r1 = r2
    /\ \A r \in running : \A j \in 1..(r.i - 1) :
          Done(<<r.tag, j>>) /\ OutCount(<<r.tag, j>>) = 1
    /\ \A o \in DOMAIN channel : \A j \in 1..(o.doc.item[2] - 1) :
          OutCount(<<o.doc.item[1], j>>) = 1
    /\ \A o \in DOMAIN channel : \A r \in running :
          r.tag = o.doc.item[1] => r.i >= o.doc.item[2]

C28_Witness ==
    \E r \in running :
        /\ r.i = 2 /\ r.pc = "pub"
        /\ OutCount(<<r.tag, 1>>) = 1
        /\ \E r2 \in running : r2.tag # r.tag

\* C22: the consumer thread never waits for the workers: whatever the pool
\* is doing (saturated, a generator call that has not returned), a delivered
\* message can be taken, and every step of on_message (append, ack, the
\* threshold test with the hand-off) can be executed at once.
C22_ConsumerNeverWaits ==
    /\ cpc = "ack" => ENABLED on_message_ack
    /\ cpc = "flush" => ENABLED on_message_flush
    /\ (cpc = "wait" /\ link = "consuming" /\ qhead < Len(sent)) =>
          ENABLED (on_message_append \/ on_message_parse_error)

C22_Witness ==
    /\ cpc = "flush"
    /\ acks[qhead] = 1
    /\ Cardinality(BufferSlots(qhead)) = 1
    /\ Cardinality(running) = WORKER_THREAD_POOL
    /\ \A r \in running : r.pc = "gen"

\* The pdf_id of item x, from the message that carried its task.
ItemPdf(x) == json_loads(sent[x[1]]).data.pdf_ids.v[x[2]]

\* C25: the cache lookup and the cache write are not one atomic step: a
\* lookup is never held back by another worker that is between its own
\* lookup and its cache write for the same key, so two concurrent items with
\* one fingerprint can both miss; each item that missed invokes the
\* generator and writes its ResultRecord with cache_hit = FALSE.
C25_GetThenSetNotAtomic ==
    /\ \A r \in running : r.pc = "check" => ENABLED cache_check(r)
    /\ \A r \in running : (r.pc \in {"save", "set", "pub"} /\ ~r.hit) =>
          Happened(<<r.tag, r.i>>, "gen")
    /\ \A w \in DOMAIN db : Happened(w.item, "gen") <=> ~w.cache_hit

C25_Witness ==
    /\ faults = 0
    /\ \E w1, w2 \in DOMAIN db :
          /\ w1.item # w2.item
          /\ w1.question = w2.question /\ ItemPdf(w1.item) = ItemPdf(w2.item)
          /\ ~w1.cache_hit /\ ~w2.cache_hit
          /\ Happened(w1.item, "gen") /\ Happened(w2.item, "gen")

\* C23 (as claimed): a task whose delivery was unacknowledged when the
\* consumer crashed is redelivered and processed a second time: once its
\* processing after the restart has returned, its first item has been
\* recorded twice.
C23_ProcessedTwice ==
    \A t \in 1..MaxMsgs :
        (Happened(<<t, 0>>, "unacked") /\ Happened(<<t, 0>>, "returned")) =>
            RecCount(<<t, 1>>) >= 2

\* C23 (amended): a task whose delivery was unacknowledged when the consumer
\* crashed goes back on the queue and is delivered again after the restart,
\* and it is processed once only: its first delivery never reached the pool,
\* so it is in at most one dispatched batch and none of its items has more
\* than one ResultRecord or Outcome.
C23_RedeliveredProcessedOnce ==
    \A t \in 1..MaxMsgs : Happened(<<t, 0>>, "unacked") =>
        /\ acks[t] <= 1
        /\ acks[t] = 0 => (t > qhead \/ (t = qhead /\ cpc = "ack"))
        /\ Cardinality(BufferSlots(t)) + Cardinality(DispatchSlots(t)) <= 1
        /\ \A i \in 1..2 : RecCount(<<t, i>>) <= 1 /\ OutCount(<<t, i>>) <= 1

C23_Witness ==
    \E t \in 1..MaxMsgs :
        /\ Happened(<<t, 0>>, "unacked")
        /\ acks[t] = 1
        /\ Happened(<<t, 0>>, "returned")
        /\ RecCount(<<t, 1>>) = 1 /\ OutCount(<<t, 1>>) = 1

\* C24: a task that was acknowledged and still in the memory of the consumer
\* (buffered, or dispatched and unfinished) when the process crashed is
\* lost: it is not delivered again, it is never again in the buffer or the
\* pool, its processing never completes and no ResultRecord or Outcome is
\* added for it.
C24_LostAfterAck ==
    \A t \in 1..MaxMsgs : Happened(<<t, 0>>, "lost") =>
        /\ acks[t] = 1
        /\ t <= qhead
        /\ t \notin MemoryTags
        /\ ~Happened(<<t, 0>>, "returned")
        /\ \A i \in 1..2 : RecCount(<<t, i>>) <= 1 /\ OutCount(<<t, i>>) <= 1
        /\ \E i \in 1..Len(json_loads(sent[t]).data.pdf_ids.v) :
              ~Done(<<t, i>>) /\ OutCount(<<t, i>>) = 0

C24_Witness ==
    /\ link = "consuming"
    /\ qhead = Len(sent) /\ cpc = "wait" /\ NoWorkLeft /\ batch_buffer = <<>>
    /\ \E t \in 1..MaxMsgs :
          /\ Happened(<<t, 0>>, "lost")
          /\ RecCount(<<t, 1>>) = 0 /\ OutCount(<<t, 1>>) = 0
    /\ \E t \in 1..MaxMsgs :
          Happened(<<t, 0>>, "lost") /\ RecCount(<<t, 1>>) = 1 /\ OutCount(<<t, 1>>) = 0

\* C27: the cache key separates distinct inputs: an answer served from the
\* cache to an item was generated for that item's own pdf_id and question.
C27_FingerprintSeparates ==
    \A e \in events : e[3] = "served" =>
        \E f \in events : f[3] = "filled" /\ f[4] = e[4]

\* C29: an item is a cache hit exactly when the Cache Store returns a
\* non-empty answer for its key: on an absent entry and on an entry holding
\* an empty answer the item goes on to the generator, its ResultRecord has
\* cache_hit = FALSE and its cache write puts the generated answer in the
\* entry; on a non-empty entry it is a hit carrying that answer.
C29_HitIffNonEmpty ==
    [][/\ \A r \in running : (r.pc = "check" /\ r \notin running') =>
             LET k == ItemKey(r)
                 nonEmpty == k \in DOMAIN cache /\ cache[k] # <<>>
             IN  \E r2 \in running' :
                    /\ r2.tag = r.tag /\ r2.i = r.i
                    /\ r2.hit = nonEmpty
                    /\ r2.pc = IF nonEmpty THEN "save" ELSE "gen"
                    /\ nonEmpty => r2.answer = cache[k]
       /\ \A r \in running : (r.pc = "save" /\ r \notin running') =>
             \E w \in DOMAIN db' :
                 /\ w.item = <<r.tag, r.i>>
                 /\ w.cache_hit = r.hit
                 /\ w.cache_hit = ~Happened(w.item, "gen")
       /\ \A r \in running : (r.pc = "set" /\ r \notin running') =>
             /\ ~r.hit /\ r.answer # <<>>
             /\ cache'[ItemKey(r)] = r.answer
      ]_vars

C29_Witness ==
    /\ WORKER_THREAD_POOL = 1
    /\ \E w1, w2 \in DOMAIN db :
          /\ w1.item # w2.item
          /\ w1.question = w2.question /\ ItemPdf(w1.item) = ItemPdf(w2.item)
          /\ ~w1.cache_hit /\ ~w2.cache_hit
          /\ Done(w1.item) /\ Done(w2.item)
          /\ Happened(w2.item, "gen") /\ Happened(w2.item, "set")
          /\ cache[_key(w2.question, ItemPdf(w2.item))] = w2.answer

\* The delivered messages whose body is JSON but not an object.
NonObjectTags == {t \in ParsedTags : ~IsDict(json_loads(sent[t]).data)}

\* C30: a message whose body is valid JSON but not an object is
\* acknowledged, buffered and counted toward the threshold like a task;
\* executed, it yields no item, no ResultRecord and no Outcome, and once
\* nothing is left to run the other tasks of its batch have been processed.
C30_NonObjectCounted ==
    /\ \A t \in NonObjectTags :
          /\ (t < qhead \/ cpc \in {"flush", "wait"}) => acks[t] = 1
          /\ Cardinality(BufferSlots(t)) + Cardinality(DispatchSlots(t)) = 1
          /\ \A r \in running : r.tag # t
          /\ \A w \in DOMAIN db : w.item[1] # t
          /\ \A o \in DOMAIN channel : o.doc.item[1] # t
    /\ Len(batch_buffer) + SumLen(dispatched) = Cardinality(ParsedTags)
    /\ cpc = "wait" =>
          /\ Len(dispatched) = Cardinality(ParsedTags) \div BATCH_SIZE
          /\ Len(batch_buffer) = Cardinality(ParsedTags) % BATCH_SIZE
    /\ NoWorkLeft =>
          \A t \in DispatchedTags :
              IF t \in NonObjectTags
              THEN Happened(<<t, 0>>, "raised")
              ELSE /\ Happened(<<t, 0>>, "returned")
                   /\ RecCount(<<t, 1>>) = 1 /\ OutCount(<<t, 1>>) = 1

C30_Witness ==
    /\ BATCH_SIZE = 2
    /\ NoWorkLeft
    /\ Len(dispatched) = 1
    /\ \E t \in DispatchedTags : t \in NonObjectTags /\ Happened(<<t, 0>>, "raised")
    /\ \E t \in DispatchedTags :
          /\ t \notin NonObjectTags
          /\ Happened(<<t, 0>>, "returned")
          /\ OutCount(<<t, 1>>) = 1
====
